---- MODULE Spec2Model ----
(***************************************************************************)
(* Block proposal / validation / ledger-append pipeline of the chainode    *)
(* SDK (src/sdk/index.js).  Several nodes share one totally ordered topic  *)
(* log; every node runs the SDK class: sendNewBlock publishes a block,     *)
(* onMessage ingests a delivered message, addBlockToLedger validates and   *)
(* stores it.  The block library (lib/block) and the database model        *)
(* (Ledger.AddBlock) are not part of the sources and follow the design     *)
(* document.                                                               *)
(***************************************************************************)
EXTENDS Integers, Sequences, FiniteSets, TLC

VARIABLES
    ledger,     \* ledger[n]: the persisted block sequence of node n (this.db)
    topicLog,   \* the ordered topic log: sequence of [topic, data]
    offset,     \* offset[n]: how many log entries node n's consumer has consumed
    inflight,   \* inflight[n]: addBlockToLedger calls suspended at `await AddBlock`
    sending,    \* sending[n]: producer.send calls whose callback has not run yet
    alive,      \* alive[n]: the node process is running
    role,       \* role[n]: this.configs.role, fixed at construction
    consumer,   \* consumer[n]: this.consumer (and this.producer): unset, open, closing, closed
    webapp,     \* webapp[n]: this.webapp: unset, open, closed
    shut,       \* shut[n]: a shutdown() call of node n has returned
    ev          \* what the last step did (outcome of the handler that ran)

vars == <<ledger, topicLog, offset, inflight, sending, alive, role,
          consumer, webapp, shut, ev>>

\* What start() and shutdown() work on
lifecycle == <<consumer, webapp, shut>>

----------------------------------------------------------------------------
(* Bounds of the model *)

MaxLog == 2        \* entries of the topic log (published + being published)
MaxInflight == 2   \* concurrent suspended addBlockToLedger calls per node

----------------------------------------------------------------------------
(* Configuration of the nodes (constructor, this.configs) *)

Nodes == {"n1", "n2"}

organization == [n1 |-> "orgA", n2 |-> "orgB"]

\* this.configs.webui.enabled
webui == [n1 |-> TRUE, n2 |-> FALSE]

PendingTopic == "pending"

OtherTopic == "other"

Topics == {PendingTopic, OtherTopic}

Payloads == {"P1"}

\* What an altered payload reads
AlteredPayload == "PX"

Timestamps == {1}

GENESIS == 0

----------------------------------------------------------------------------
(* Block library: digest, block creation, validation *)

OrgCode(o) == CASE o = "orgA" -> 1 [] o = "orgB" -> 2 [] o = "orgC" -> 3 [] OTHER -> 0

PayCode(p) == IF p.value = "P1" THEN 0 ELSE 1

DigestBase == 4 * Cardinality(Payloads \cup {AlteredPayload}) * Cardinality(Timestamps)

\* An injective digest over {organization, payload, previousHash, timestamp};
\* never GENESIS.
Digest(o, p, prev, ts) ==
    prev * DigestBase + (OrgCode(o) + 4 * PayCode(p) + 8 * (ts - 1)) + 1

\* JSON.stringify / JSON.parse: a serialized value is a string that parses
\* back to the value; other byte strings do not parse.
serialize(x) == [kind |-> "json", value |-> x]

Parses(d) == d.kind = "json"

deserialize(d) == d.value

HeadHash(led) == IF led = <<>> THEN GENESIS ELSE led[Len(led)].hash

generateNextBlock(o, payload, prev, ts) ==
    [organization |-> o, payload |-> payload, previousHash |-> prev,
     timestamp |-> ts, hash |-> Digest(o, payload, prev, ts)]

WellFormed(b) == b.organization # "" /\ b.hash # GENESIS

\* A validator that looks at the parent before the hash
Validate_ParentFirst(b, led) ==
    IF ~WellFormed(b) THEN "malformed"
    ELSE IF b.previousHash # HeadHash(led) THEN "stale-or-forked-parent"
    ELSE IF Digest(b.organization, b.payload, b.previousHash, b.timestamp) # b.hash
         THEN "hash-mismatch"
    ELSE "Accepted"

\* The validator's checks in order, short-circuiting on the first failure.
Validate(b, led) ==
    IF ~WellFormed(b) THEN "malformed"
    ELSE IF Digest(b.organization, b.payload, b.previousHash, b.timestamp) # b.hash
         THEN "hash-mismatch"
    ELSE IF b.previousHash # HeadHash(led) THEN "stale-or-forked-parent"
    ELSE "Accepted"

isValidBlock(b, led) == Validate(b, led) = "Accepted"

----------------------------------------------------------------------------
(* Byte strings that are not JSON, and blocks altered in transit *)

NoBlock ==
    [organization |-> "", payload |-> serialize("P1"), previousHash |-> GENESIS,
     timestamp |-> 1, hash |-> GENESIS]

Garbage == [kind |-> "raw", value |-> NoBlock]

Tamperings(b) ==
    { [b EXCEPT !.payload = serialize(AlteredPayload)],
      [b EXCEPT !.organization = ""] }

Msg(t, d) == [topic |-> t, data |-> d]

----------------------------------------------------------------------------
(* Events: what the handler that ran in the last step did *)

\* op: the handler; outcome: how it ended; reason: why; headSeen: the head an
\* AddBlock call was validated against; reported: what the sendNewBlock call
\* of this publish gave its caller.
Ev(op, outcome, reason, head, reported) ==
    [op |-> op, outcome |-> outcome, reason |-> reason, headSeen |-> head,
     reported |-> reported]

\* The state after construction, before any message, for given roles;
\* started: start() has run to its end on every node.
Constructed(roles, started) ==
    /\ ledger = [n \in Nodes |-> <<>>]
    /\ topicLog = <<>>
    /\ offset = [n \in Nodes |-> 0]
    /\ inflight = [n \in Nodes |-> <<>>]
    /\ sending = [n \in Nodes |-> {}]
    /\ alive = [n \in Nodes |-> TRUE]
    /\ role = roles
    /\ consumer = [n \in Nodes |-> IF started THEN "open" ELSE "unset"]
    /\ webapp = [n \in Nodes |-> IF started /\ webui[n] THEN "open" ELSE "unset"]
    /\ shut = [n \in Nodes |-> FALSE]
    /\ ev = Ev("init", "none", "none", GENESIS, "none")

\* A peer and a node with another role, started
Init == Constructed([n1 |-> "peer", n2 |-> "orderer"], TRUE)

\* Two peers, started
InitPeers == Constructed([n1 |-> "peer", n2 |-> "peer"], TRUE)

\* A peer and a node with another role, constructed and not started
InitLifecycle == Constructed([n1 |-> "peer", n2 |-> "orderer"], FALSE)

----------------------------------------------------------------------------
(* Error handler and process-level outcome of an error nobody catches *)

\* errors(ctx, err): logs and rethrows; the value is the error that leaves
\* the catch block ("none" would mean the error is swallowed).
errors(err) == err

\* An exception that leaves an async handler (rejected promise without a
\* handler) or a callback run from the event loop is not caught anywhere in
\* the SDK: the runtime either goes on (warning) or ends the process.
UncaughtOutcomes == {"continues", "terminates"}

Uncaught(n, out, infl, snd, offs) ==
    /\ alive' = [alive EXCEPT ![n] = (out = "continues")]
    /\ offset' = [offs EXCEPT ![n] = IF out = "continues" THEN @ ELSE 0]
    /\ inflight' = [infl EXCEPT ![n] = IF out = "continues" THEN @ ELSE <<>>]
    /\ sending' = [snd EXCEPT ![n] = IF out = "continues" THEN @ ELSE {}]

Pending == Len(topicLog) + Cardinality(UNION {sending[n] : n \in Nodes})

----------------------------------------------------------------------------
(* Outbound path: sendNewBlock and __produce *)

\* this.producer is set by start() together with this.consumer, lines 53-55;
\* before that `this.producer.send` is a TypeError.
ProducerUnset(n) == consumer[n] = "unset"

\* __produce, lines 89-103: producer.send either throws synchronously
\* (caught, handed to errors) or returns and reports through its callback.
produce(sendThrows) == IF sendThrows THEN errors("TransportError") ELSE "none"

\* A sendNewBlock that also stores the block it proposes in its own ledger
sendNewBlock_AndStore(n) ==
    /\ alive[n]
    /\ Pending < MaxLog
    /\ \E data \in Payloads, ts \in Timestamps :
         LET newblock == generateNextBlock(organization[n], serialize(data),
                                           HeadHash(ledger[n]), ts)
             m == [msg |-> Msg(PendingTopic, serialize(newblock)),
                   returned |-> newblock.hash]
         IN  /\ m \notin sending[n]
             /\ sending' = [sending EXCEPT ![n] = @ \cup {m}]
             /\ ledger' = [ledger EXCEPT ![n] = Append(@, newblock)]
             /\ ev' = Ev("sendNewBlock", "returnedHash", "none", GENESIS, "hash")
    /\ UNCHANGED <<topicLog, offset, inflight, alive, role, lifecycle>>

\* A proposer that signs every block as orgA
ProposerOrg_Fixed(n) == "orgA"

\* `const { organization } = this.configs`, line 135
ProposerOrg(n) == organization[n]

sendNewBlock(n) ==
    /\ alive[n]
    /\ Pending < MaxLog
    /\ \E data \in Payloads, ts \in Timestamps, sendThrows \in BOOLEAN :
         LET serializedData == serialize(data)
             newblock == generateNextBlock(ProposerOrg(n), serializedData,
                                           HeadHash(ledger[n]), ts)
             m == [msg |-> Msg(PendingTopic, serialize(newblock)),
                   returned |-> newblock.hash]
             thrown == produce(sendThrows)
             failed == IF thrown = "none" THEN "none" ELSE errors(thrown)
         IN  /\ m \notin sending[n]
             /\ ProducerUnset(n) => sendThrows
             /\ IF failed # "none"
                THEN /\ ev' = Ev("sendNewBlock", "threw", failed, GENESIS, "error")
                     /\ UNCHANGED sending
                ELSE /\ ev' = Ev("sendNewBlock", "returnedHash", "none", GENESIS, "hash")
                     /\ sending' = [sending EXCEPT ![n] =
                                      IF sendThrows THEN @ ELSE @ \cup {m}]
    /\ UNCHANGED <<ledger, topicLog, offset, inflight, alive, role, lifecycle>>

\* The callback given to producer.send, lines 95-99, run later from the
\* event loop: `if (err) throw Error(err)`.
produceCallback(n) ==
    /\ alive[n]
    /\ \E m \in sending[n], err \in BOOLEAN :
         LET rest == [sending EXCEPT ![n] = @ \ {m}]
             reported == IF m.returned = deserialize(m.msg.data).hash THEN "hash"
                         ELSE "error"
         IN  IF err
             THEN \E out \in UncaughtOutcomes :
                    /\ Uncaught(n, out, inflight, rest, offset)
                    /\ ev' = Ev("produceCallback", "threw", "TransportError", GENESIS,
                                reported)
                    /\ UNCHANGED topicLog
             ELSE /\ topicLog' = Append(topicLog, m.msg)
                  /\ sending' = rest
                  /\ ev' = Ev("produceCallback", "published", "none", GENESIS, reported)
                  /\ UNCHANGED <<inflight, alive, offset>>
    /\ UNCHANGED <<ledger, role, lifecycle>>

----------------------------------------------------------------------------
(* Inbound path: onMessage, addBlockToLedger, Ledger.AddBlock *)

\* A role check that passes for every node
hasRole_Always(n, r) == TRUE

\* hasRole, lines 29-32
hasRole(n, r) == role[n] = r

\* An addBlockToLedger that goes on to AddBlock whatever the validator says
SkipsBlock_Never(valid) == FALSE

\* An addBlockToLedger that drops every block
SkipsBlock_Always(valid) == TRUE

\* The `if (!valid) ... return false` branch of addBlockToLedger, lines 158-162.
SkipsBlock(valid) == ~valid

\* addBlockToLedger up to its `await db.Ledger.AddBlock(data)`, lines 152-165.
addBlockToLedger(n, data) ==
    LET head == HeadHash(ledger[n])
        valid == isValidBlock(data, ledger[n])
    IN  IF SkipsBlock(valid)
        THEN /\ ev' = Ev("onMessage", "returnedFalse", Validate(data, ledger[n]), GENESIS, "none")
             /\ UNCHANGED inflight
        ELSE /\ Len(inflight[n]) < MaxInflight
             /\ inflight' = [inflight EXCEPT ![n] =
                               Append(@, [block |-> data, headSeen |-> head])]
             /\ ev' = Ev("onMessage", "awaiting", Validate(data, ledger[n]), GENESIS, "none")

\* The topic switch of onMessage, lines 119-127.
IsPendingTopic(t) == t = PendingTopic

\* onMessage, lines 116-128, for one delivered message m; offs is the
\* consumer's position once m is handed over.
onMessage(n, m, offs) ==
    IF ~Parses(m.data)
    THEN \E out \in UncaughtOutcomes :
           /\ Uncaught(n, out, inflight, sending, offs)
           /\ ev' = Ev("onMessage", "threw", "SyntaxError", GENESIS, "none")
    ELSE IF IsPendingTopic(m.topic)
    THEN /\ IF hasRole(n, "peer")
            THEN addBlockToLedger(n, deserialize(m.data))
            ELSE /\ ev' = Ev("onMessage", "returnedFalse", "not-peer", GENESIS, "none")
                 /\ UNCHANGED inflight
         /\ offset' = offs
         /\ UNCHANGED <<sending, alive>>
    ELSE \E out \in UncaughtOutcomes :
           /\ Uncaught(n, out, inflight, sending, offs)
           /\ ev' = Ev("onMessage", "threw", "InvalidTopic", GENESIS, "none")

\* The consumer of node n delivers: from the end of initKafka until a close
\* has finished.
Subscribed(n) == consumer[n] \in {"open", "closing"}

\* The consumer hands node n an entry of the ordering topic: the next one,
\* or one it was handed before (at-least-once delivery).
DeliverEntry(n, i) ==
    /\ alive[n]
    /\ Subscribed(n)
    /\ i \in 1..Len(topicLog)
    /\ i <= offset[n] + 1
    /\ onMessage(n, topicLog[i], [offset EXCEPT ![n] = IF i = @ + 1 THEN i ELSE @])
    /\ UNCHANGED <<ledger, topicLog, role, lifecycle>>

Deliver(n) == \E i \in 1..MaxLog : DeliverEntry(n, i)

\* Messages that do not come from sendNewBlock: bytes that are not JSON, a
\* block on another topic, a published block altered in transit.
Foreign(n) ==
    {Msg(t, Garbage) : t \in Topics}
    \cup {Msg(OtherTopic, serialize(generateNextBlock("orgC", serialize("P1"), GENESIS, 1)))}
    \cup UNION { {Msg(PendingTopic, serialize(b)) : b \in Tamperings(deserialize(topicLog[i].data))}
                 : i \in {offset[n], offset[n] + 1} \cap (1..Len(topicLog)) }

DeliverForeignMsg(n, m) ==
    /\ alive[n]
    /\ Subscribed(n)
    /\ m \in Foreign(n)
    /\ onMessage(n, m, offset)
    /\ UNCHANGED <<ledger, topicLog, role, lifecycle>>

DeliverForeign(n) == \E m \in Foreign(n) : DeliverForeignMsg(n, m)

HasHash(led, h) == \E k \in 1..Len(led) : led[k].hash = h

\* A Ledger.AddBlock that stores a block whose hash is stored already
AddBlock_NoDedup(led, b, fails) ==
    IF fails THEN [result |-> "StorageError", ledger |-> led]
    ELSE [result |-> "Appended", ledger |-> Append(led, b)]

\* Ledger.AddBlock: a block whose hash is stored already is a no-op,
\* otherwise the block is persisted and becomes the head; a storage failure
\* stores nothing.
AddBlock(led, b, fails) ==
    IF fails THEN [result |-> "StorageError", ledger |-> led]
    ELSE IF HasHash(led, b.hash) THEN [result |-> "AlreadyPresent", ledger |-> led]
    ELSE [result |-> "Appended", ledger |-> Append(led, b)]

RemoveAt(s, k) == [j \in 1..(Len(s) - 1) |-> IF j < k THEN s[j] ELSE s[j + 1]]

\* The rest of addBlockToLedger once AddBlock settles, lines 165-172.
AddBlockDone(n, storageFails) ==
    /\ alive[n]
    /\ \E k \in 1..Len(inflight[n]), fails \in storageFails :
         LET call == inflight[n][k]
             res == AddBlock(ledger[n], call.block, fails)
             rest == [inflight EXCEPT ![n] = RemoveAt(@, k)]
             thrown == IF res.result = "StorageError" THEN errors("StorageError")
                       ELSE "none"
         IN  /\ ledger' = [ledger EXCEPT ![n] = res.ledger]
             /\ IF thrown # "none"
                THEN \E out \in UncaughtOutcomes :
                       /\ Uncaught(n, out, rest, sending, offset)
                       /\ ev' = Ev("AddBlockDone", "threw", thrown, call.headSeen, "none")
                ELSE /\ inflight' = rest
                     /\ ev' = Ev("AddBlockDone",
                                 IF res.result = "StorageError" THEN "returnedUndefined"
                                 ELSE "returnedHash",
                                 res.result, call.headSeen, "none")
                     /\ UNCHANGED <<sending, alive, offset>>
    /\ UNCHANGED <<topicLog, role, lifecycle>>

----------------------------------------------------------------------------
(* Life cycle: start, shutdown, stopWebConsole, stop *)

Pipeline == <<ledger, topicLog, offset, inflight, sending, alive, role>>

\* start, lines 43-66: initKafka sets consumer and producer, then the web
\* console is started when enabled; an error of either goes to errors().
start(n) ==
    /\ alive[n]
    /\ consumer[n] = "unset"
    /\ \E kafkaFails, backendFails \in BOOLEAN :
         LET thrown == IF kafkaFails THEN errors("TransportError")
                       ELSE IF webui[n] /\ backendFails THEN errors("WebConsoleError")
                       ELSE "none"
         IN  /\ backendFails => (~kafkaFails /\ webui[n])
             /\ consumer' = [consumer EXCEPT ![n] = IF kafkaFails THEN @ ELSE "open"]
             /\ webapp' = [webapp EXCEPT ![n] =
                             IF webui[n] /\ thrown = "none" THEN "open" ELSE @]
             /\ ev' = Ev("start", IF thrown = "none" THEN "returned" ELSE "threw",
                         thrown, GENESIS, "none")
    /\ UNCHANGED <<shut, Pipeline>>

\* stopWebConsole, lines 83-86: `this.webapp && this.webapp.close()`; the
\* value is the error that leaves it.
stopWebConsole(n, closeThrows) ==
    IF webapp[n] # "unset" /\ closeThrows THEN "WebConsoleError" ELSE "none"

\* stop, lines 69-73: `this.consumer.close(callback)`; the value is the
\* error its promise is rejected with.
stop(n) == IF consumer[n] = "unset" THEN "TypeError" ELSE "none"

\* shutdown, lines 35-40: `await this.stopWebConsole().stop(); return this`.
\* stop() is called on what stopWebConsole() returns, and resolves with
\* what consumer.close returns, not with its callback.
shutdown(n) ==
    /\ alive[n]
    /\ \E closeThrows \in BOOLEAN :
         LET first == stopWebConsole(n, closeThrows)
             thrown == IF first # "none" THEN first ELSE stop(n)
         IN  /\ closeThrows => webapp[n] # "unset"
             /\ webapp' = [webapp EXCEPT ![n] =
                             IF @ # "unset" /\ first = "none" THEN "closed" ELSE @]
             /\ consumer' = [consumer EXCEPT ![n] =
                               IF thrown = "none" /\ @ = "open" THEN "closing" ELSE @]
             /\ shut' = [shut EXCEPT ![n] = @ \/ thrown = "none"]
             /\ ev' = Ev("shutdown", IF thrown = "none" THEN "returned" ELSE "threw",
                         thrown, GENESIS, "none")
    /\ UNCHANGED Pipeline

\* The callback given to consumer.close, lines 70-72, once the close has
\* finished or failed.
closeCallback(n) ==
    /\ alive[n]
    /\ consumer[n] = "closing"
    /\ \E err \in BOOLEAN :
         /\ consumer' = [consumer EXCEPT ![n] = IF err THEN "open" ELSE "closed"]
         /\ ev' = Ev("closeCallback", IF err THEN "failed" ELSE "closed",
                     IF err THEN "TransportError" ELSE "none", GENESIS, "none")
    /\ UNCHANGED <<webapp, shut, Pipeline>>

----------------------------------------------------------------------------

Step(storageFails) ==
    \/ \E n \in Nodes : sendNewBlock(n)
    \/ \E n \in Nodes : produceCallback(n)
    \/ \E n \in Nodes : Deliver(n)
    \/ \E n \in Nodes : DeliverForeign(n)
    \/ \E n \in Nodes : AddBlockDone(n, storageFails)

Next == Step(BOOLEAN)

\* The same with a storage that never fails
NextReliable == Step({FALSE})

Spec == Init /\ [][Next]_vars

\* Two peers on a storage that never fails
SpecPeers == InitPeers /\ [][NextReliable]_vars

\* The pipeline together with the life cycle of the nodes
NextLifecycle ==
    \/ Next
    \/ \E n \in Nodes : start(n)
    \/ \E n \in Nodes : shutdown(n)
    \/ \E n \in Nodes : closeCallback(n)

SpecLifecycle == InitLifecycle /\ [][NextLifecycle]_vars

----------------------------------------------------------------------------
(* Vocabulary of the properties *)

Peers == {n \in Nodes : role[n] = "peer"}

\* The messages node n can be handed in the current state
Candidates(n) == {topicLog[i] : i \in 1..Len(topicLog)} \cup Foreign(n)

\* This step is node n's onMessage for message m
Handles(n, m) ==
    \/ \E i \in 1..MaxLog : i <= Len(topicLog) /\ topicLog[i] = m /\ DeliverEntry(n, i)
    \/ DeliverForeignMsg(n, m)

HashOk(b) == Digest(b.organization, b.payload, b.previousHash, b.timestamp) = b.hash

\* A block delivered on the ordering topic whose parent is not n's head
StaleParent(n, m) ==
    /\ m.topic = PendingTopic
    /\ Parses(m.data)
    /\ deserialize(m.data).previousHash # HeadHash(ledger[n])

Quiet(n) == alive[n] /\ inflight[n] = <<>>

----------------------------------------------------------------------------
(* C1 *)

C1_Rejected ==
    /\ ev'.outcome = "returnedFalse"
    /\ inflight' = inflight
    /\ ledger' = ledger

----------------------------------------------------------------------------
(* C2 *)

OneBlockPerParent(led) ==
    \A i, j \in 1..Len(led) : led[i].previousHash = led[j].previousHash => i = j

\* C2: of competing blocks with the same previousHash a peer appends the one
\* delivered first and rejects the other: a peer's ledger never holds two
\* blocks with the same previousHash.
C2_ForkRejection == \A n \in Peers : OneBlockPerParent(ledger[n])

----------------------------------------------------------------------------
(* C3 *)

\* C3: validation and append are atomic per node: a block is appended only
\* to the head it was validated against, so two executions never both
\* validate against one head and both append.
C3_AtomicValidateAppend ==
    [][\A n \in Nodes :
         ledger'[n] # ledger[n] => ev'.headSeen = HeadHash(ledger[n])]_vars

----------------------------------------------------------------------------
(* C4 *)

NoDuplicateHash(led) ==
    \A i, j \in 1..Len(led) : led[i].hash = led[j].hash => i = j

\* A step that hands n a block whose hash is in n's ledger, or that settles
\* an AddBlock call for such a block
C4_Redelivery(n) ==
    \/ /\ ev'.op = "onMessage"
       /\ \E m \in Candidates(n) :
            /\ m.topic = PendingTopic
            /\ Parses(m.data)
            /\ HasHash(ledger[n], deserialize(m.data).hash)
            /\ Handles(n, m)
    \/ /\ ev'.op = "AddBlockDone"
       /\ ev'.reason # "StorageError"
       /\ Len(inflight'[n]) < Len(inflight[n])
       /\ \A k \in 1..Len(inflight[n]) :
            inflight'[n] = RemoveAt(inflight[n], k)
               => HasHash(ledger[n], inflight[n][k].block.hash)

----------------------------------------------------------------------------
(* C5 *)

\* C5: peers that have consumed the same prefix of the ordering topic (and
\* have no call in flight) hold identical ledgers.
C5_Convergence ==
    \A a, b \in Peers :
        (Quiet(a) /\ Quiet(b) /\ offset[a] = offset[b]) => ledger[a] = ledger[b]

----------------------------------------------------------------------------
(* C6 *)

\* C6: a node whose role is not peer never calls Ledger.AddBlock: it has no
\* AddBlock call in flight and its ledger stays empty.
C6_RoleGating ==
    \A n \in Nodes \ Peers : inflight[n] = <<>> /\ ledger[n] = <<>>

\* A node that is no peer was handed a block its (empty) ledger would accept.
C6_Witness ==
    /\ ev.op = "onMessage"
    /\ ev.reason = "not-peer"
    /\ \E n \in Nodes \ Peers :
         /\ offset[n] >= 1
         /\ \E i \in 1..offset[n] :
              isValidBlock(deserialize(topicLog[i].data), ledger[n])

----------------------------------------------------------------------------
(* C7 *)

\* C7: when the publish of a proposed block fails, sendNewBlock has reported
\* the failure to its caller, never the block's hash, and the node keeps
\* running.
C7_PublishFailureReported ==
    [][ev'.reason = "TransportError"
         => (ev'.reported = "error" /\ alive' = alive)]_vars

----------------------------------------------------------------------------
(* C8 *)

\* C8: when Ledger.AddBlock fails with a storage error the block is not in
\* the ledger, its hash is not acknowledged and the node keeps ingesting.
C8_StorageErrorContained ==
    [][ev'.reason = "StorageError"
         => (ledger' = ledger /\ ev'.outcome # "returnedHash" /\ alive' = alive)]_vars

----------------------------------------------------------------------------
(* C9 *)

\* C9: a message on a topic other than the ordering topic ends in the
\* unrecognized-topic error, on every node, without AddBlock being called
\* and without a change of the ledger.
C9_UnrecognizedTopic ==
    [][ev'.op = "onMessage" =>
         \A n \in Nodes : \A m \in Candidates(n) :
            (m.topic # PendingTopic /\ Handles(n, m))
               => (ev'.reason = "InvalidTopic" /\ inflight' = inflight
                   /\ ledger' = ledger)]_vars

----------------------------------------------------------------------------
(* C10 *)

\* C10: for every delivered message the ingestion path ends with an accept or
\* a reject, never with an error leaving it, and the node stays able to
\* process the next message.
C10_IngestionCompletes ==
    [][ev'.op \in {"onMessage", "AddBlockDone"}
         => (ev'.outcome \in {"returnedFalse", "awaiting", "returnedHash"}
             /\ alive' = alive)]_vars

----------------------------------------------------------------------------
(* C11 *)

\* C11: a shutdown() call completes from every state of the node (never
\* started, start failed, web console absent or its close failing): it
\* returns, and the close of an open consumer has been attempted whatever
\* the other release did.
C11_ShutdownCompletes ==
    [][ev'.op = "shutdown" =>
         /\ ev'.outcome = "returned"
         /\ \A n \in Nodes :
              shutdown(n) => (shut'[n] /\ (consumer[n] = "open" => consumer'[n] # "open"))]_vars

----------------------------------------------------------------------------
(* C12 *)

\* The AddBlock calls of node n one of which this step settles
Settled(n) ==
    {k \in 1..Len(inflight[n]) : inflight'[n] = RemoveAt(inflight[n], k)}

\* Entry i of the ordering topic is a block built on the current head of n
BuiltOnHead(n, i) ==
    /\ i \in 1..Len(topicLog)
    /\ deserialize(topicLog[i].data).previousHash = HeadHash(ledger[n])

B1 == generateNextBlock("orgA", serialize("P1"), GENESIS, 1)

\* C12: a block that sendNewBlock built on a peer's current head (genesis
\* for an empty ledger) and that is delivered to this peer is validated as
\* Accepted and handed to AddBlock; when AddBlock stores it with the head
\* still the one it was built on, the ledger grows by exactly this block,
\* which is the new head.
C12_ProposeDeliverAppend ==
    [][/\ ev'.op = "onMessage" =>
            \A n \in Peers : \A i \in 1..MaxLog :
               (BuiltOnHead(n, i) /\ DeliverEntry(n, i))
                  => /\ ev'.outcome = "awaiting"
                     /\ ev'.reason = "Accepted"
                     /\ inflight'[n] =
                           Append(inflight[n],
                                  [block |-> deserialize(topicLog[i].data),
                                   headSeen |-> HeadHash(ledger[n])])
                     /\ ledger' = ledger
       /\ (ev'.op = "AddBlockDone" /\ ev'.reason # "StorageError") =>
            \A n \in Peers : \A k \in Settled(n) :
               inflight[n][k].block.previousHash = HeadHash(ledger[n])
                  => /\ ev'.reason = "Appended"
                     /\ ledger'[n] = Append(ledger[n], inflight[n][k].block)
                     /\ HeadHash(ledger'[n]) = inflight[n][k].block.hash]_vars

\* From the empty ledger, P1 proposed by orgA was delivered to the peer and
\* stored: the ledger is B1 alone, with previousHash genesis, and B1 is head.
C12_Witness ==
    /\ ev.op = "AddBlockDone"
    /\ ev.reason = "Appended"
    /\ \E n \in Peers :
         /\ ledger[n] = <<B1>>
         /\ B1.previousHash = GENESIS
         /\ HeadHash(ledger[n]) = B1.hash
         /\ offset[n] = 1

----------------------------------------------------------------------------
(* C13 *)

\* A block delivered on the ordering topic whose declared hash is not the
\* digest of its own organization, payload, previousHash and timestamp
HashMismatch(m) ==
    /\ m.topic = PendingTopic
    /\ Parses(m.data)
    /\ ~HashOk(deserialize(m.data))

AllHashesOk == \A n \in Nodes : \A k \in 1..Len(ledger[n]) : HashOk(ledger[n][k])

----------------------------------------------------------------------------
(* C14 *)

RejectReasons == {"malformed", "hash-mismatch", "stale-or-forked-parent"}

\* A block delivered on the ordering topic that n's validator rejects
Invalid(n, m) ==
    /\ m.topic = PendingTopic
    /\ Parses(m.data)
    /\ Validate(deserialize(m.data), ledger[n]) \in RejectReasons

\* C14: when a peer rejects a delivered block its ledger is unchanged,
\* nothing is republished or queued again (topic log, pending publishes and
\* pending AddBlock calls are as before), and the node keeps running with its
\* consumer position not moved back; no onMessage step, rejecting or not,
\* changes a ledger.
C14_RejectionFrame ==
    [][ev'.op = "onMessage" =>
         /\ ledger' = ledger
         /\ \A n \in Peers : \A m \in Candidates(n) :
              (Invalid(n, m) /\ Handles(n, m))
                 => /\ ev'.outcome = "returnedFalse"
                    /\ ev'.reason \in RejectReasons
                    /\ topicLog' = topicLog
                    /\ sending' = sending
                    /\ inflight' = inflight
                    /\ alive' = alive
                    /\ offset'[n] >= offset[n]]_vars

\* A peer whose ledger holds a block has rejected a delivered block while an
\* entry of the topic is still to be consumed.
C14_Witness ==
    /\ ev.op = "onMessage"
    /\ ev.outcome = "returnedFalse"
    /\ ev.reason \in RejectReasons
    /\ \E n \in Peers :
         /\ alive[n]
         /\ ledger[n] # <<>>
         /\ offset[n] < Len(topicLog)

----------------------------------------------------------------------------
(* C15 *)

Linked(led) ==
    \A k \in 1..Len(led) :
        led[k].previousHash = IF k = 1 THEN GENESIS ELSE led[k - 1].hash

\* C15: in every reachable state the blocks of a peer's ledger form a
\* hash-linked chain: the first block's previousHash is the genesis sentinel
\* and every later block's previousHash is the hash of the block appended
\* immediately before it.
C15_HashLinkedChain == \A n \in Peers : Linked(ledger[n])

----------------------------------------------------------------------------
(* C16 *)

\* The publishes this step hands to node n's producer
Proposed(n) == sending'[n] \ sending[n]

----------------------------------------------------------------------------
(* C17 *)

\* Every block of every ledger is an entry of the ordering topic
FromTopic ==
    \A n \in Nodes : \A k \in 1..Len(ledger[n]) :
        \E i \in 1..Len(topicLog) :
            /\ topicLog[i].topic = PendingTopic
            /\ deserialize(topicLog[i].data) = ledger[n][k]

\* C17: the proposal path (sendNewBlock, __produce and its callback) changes
\* no ledger and starts no AddBlock call, and a sendNewBlock that returns
\* gives the block's hash; a ledger changes only when an AddBlock call
\* started by onMessage settles, and every block of a ledger is an entry of
\* the ordering topic.
C17_FireAndForget ==
    /\ []FromTopic
    /\ [][/\ ev'.op \in {"sendNewBlock", "produceCallback"} =>
               /\ ledger' = ledger
               /\ \A n \in Nodes : Len(inflight'[n]) <= Len(inflight[n])
          /\ (ev'.op = "sendNewBlock" /\ ev'.outcome # "threw") =>
               /\ ev'.outcome = "returnedHash"
               /\ \A n \in Nodes : \A m \in Proposed(n) :
                    m.returned = deserialize(m.msg.data).hash
          /\ \A n \in Nodes :
               /\ ledger'[n] # ledger[n] =>
                    /\ ev'.op = "AddBlockDone"
                    /\ \E k \in Settled(n) :
                         ledger'[n] = Append(ledger[n], inflight[n][k].block)
               /\ Len(inflight'[n]) > Len(inflight[n]) => ev'.op = "onMessage"]_vars

\* A peer whose ledger holds a block of its own, stored on delivery, has
\* proposed a further block and been given its hash; that block is in no
\* ledger.
C17_Witness ==
    /\ ev.op = "sendNewBlock"
    /\ ev.outcome = "returnedHash"
    /\ \E n \in Peers : \E m \in sending[n] :
         /\ ledger[n] # <<>>
         /\ ledger[n][1].organization = organization[n]
         /\ offset[n] >= 1
         /\ \A p \in Nodes : ~HasHash(ledger[p], m.returned)

----------------------------------------------------------------------------
(* C18 *)

\* The checks block b fails against ledger led
FailsStructure(b) == ~WellFormed(b)

FailsHash(b) == ~HashOk(b)

FailsParent(b, led) == b.previousHash # HeadHash(led)

----------------------------------------------------------------------------
(* C19 *)

\* C19: a node that is no peer handles every message delivered on the
\* ordering topic, whatever its payload, as a no-op: onMessage ends without
\* an error (it returns false) and the node's ledger, pending calls and
\* process are as before.
C19_NonPeerNoOp ==
    [][ev'.op = "onMessage" =>
         \A n \in Nodes \ Peers : \A m \in Candidates(n) :
            (m.topic = PendingTopic /\ Handles(n, m))
               => /\ ev'.outcome = "returnedFalse"
                  /\ ledger' = ledger
                  /\ inflight' = inflight
                  /\ sending' = sending
                  /\ alive' = alive]_vars

----------------------------------------------------------------------------
(* C20 *)

\* C20: once a shutdown() call of a node has returned, no message delivered
\* to the node is ingested (no onMessage runs) and no block is appended to
\* its ledger.
C20_ClosedAfterShutdown ==
    [][\A n \in Nodes :
         shut[n] =>
            /\ ledger'[n] = ledger[n]
            /\ ev'.op = "onMessage" => \A m \in Candidates(n) : ~Handles(n, m)]_vars

====
